---- MODULE Spec2Model ----
(***************************************************************************)
(* Hybrid retrieval engine of clever-docu-chat-buddy:                      *)
(*   backend/app/rag_utils.py  VectorStore (semantic and SQL retrieval)    *)
(*   backend/app/main.py       set_file_restrictions, can_access_file, chat*)
(*                                                                         *)
(* Conventions of the model                                                *)
(*  - A similarity score is an integer number of hundredths (100 = 1.0).   *)
(*    The embedding vectors drawn below have integer Euclidean norms, so   *)
(*    the scaled cosine is exact.                                          *)
(*  - A text (a completion, a SQL statement) is a sequence of lexemes; a   *)
(*    lexeme is a string that the regular expressions of the code treat as *)
(*    a unit.                                                              *)
(*  - None is the string "None"; an exception is a tagged value.           *)
(*  - A record constructor lists its fields in the order in which TLC      *)
(*    keeps them (the order of the names' first occurrence in the module), *)
(*    so that a record shared by two workers is never reordered in place.  *)
(***************************************************************************)
EXTENDS Integers, Sequences, FiniteSets, TLC

VARIABLES restricted, embedding, pc, sem, sqlr, chat, syn, retry, cos, upload

vars == <<restricted, embedding, pc, sem, sqlr, chat, syn, retry, cos, upload>>

None == "None"

NoUser == 0

(***************************************************************************)
(* Bounds of the model                                                     *)
(***************************************************************************)
NumChunks == 6
MaxLimit == 3

(***************************************************************************)
(* Users and roles (models.py).  User.role is a UserRole enum member; the  *)
(* member is a different value from the string it wraps.                   *)
(***************************************************************************)
UserRole_ADMIN == "UserRole.ADMIN"
UserRole_MANAGER == "UserRole.MANAGER"
UserRole_EMPLOYEE == "UserRole.EMPLOYEE"

UserRoleValue(role) ==
    CASE role = UserRole_ADMIN -> "admin"
      [] role = UserRole_MANAGER -> "manager"
      [] OTHER -> "employee"

UserRoles == <<UserRole_ADMIN, UserRole_MANAGER, UserRole_EMPLOYEE>>

Users == 1..Len(UserRoles)

RoleOf(u) == UserRoles[u]

(***************************************************************************)
(* Files, documents and chunks (models.py).  One document per file; chunk  *)
(* c belongs to the document of file FileOfChunk(c).  Every modality has   *)
(* its own chunk table with its own id sequence.                           *)
(***************************************************************************)
FileTypes == <<"pdf", "csv", "xlsx", "website", "pdf">>

RagTypes == <<None, "sql", "sql", None, None>>

Files == 1..Len(FileTypes)

FileTypeOf(f) == FileTypes[f]

RagTypeOf(f) == RagTypes[f]

OriginalFilename(f) == <<"file", f>>

Chunks == 1..NumChunks

FileOfChunk(c) == ((c - 1) % Len(FileTypes)) + 1

ModalityOf(c) == FileTypeOf(FileOfChunk(c))

ChunkId(c) == Cardinality({d \in 1..c : ModalityOf(d) = ModalityOf(c)})

(***************************************************************************)
(* Stored embeddings.  The column is JSON: a stored value is null, a list  *)
(* of numbers, or a string (a JSON text that json.loads parses or not).    *)
(***************************************************************************)
EmbList(v) == [v |-> v, kind |-> "list"]

EmbNull == [v |-> <<>>, kind |-> "null"]

EmbBadJson == [v |-> <<>>, kind |-> "str_invalid"]

EmbJsonList(v) == [v |-> v, kind |-> "str_list"]

EmbJsonNumber == [v |-> <<>>, kind |-> "str_number"]

EmbCycle ==
    << EmbList(<<3, 4>>), EmbList(<<4, 3>>), EmbJsonList(<<5, 0>>),
       EmbList(<<3, 4>>), EmbNull, EmbList(<<0, 5>>), EmbBadJson,
       EmbList(<<-3, 4>>), EmbList(<<0, 0>>), EmbList(<<5>>),
       EmbJsonNumber, EmbList(<<-3, -4>>) >>

StoreOfShift(s) ==
    [c \in Chunks |-> EmbCycle[((c + s) % Len(EmbCycle)) + 1]]

StoreShifts == 1..Len(EmbCycle)

(***************************************************************************)
(* VectorStore._cosine_similarity                                          *)
(***************************************************************************)
RECURSIVE Dot(_, _)
Dot(a, b) ==
    IF a = <<>> THEN 0 ELSE Head(a) * Head(b) + Dot(Tail(a), Tail(b))

ISqrt(n) == CHOOSE r \in 0..n : r * r <= n /\ n < (r + 1) * (r + 1)

Norm(a) == ISqrt(Dot(a, a))

CosineSimilarityOneWhenEqual(vec_a, vec_b) ==
    IF vec_a = vec_b THEN 100
    ELSE IF vec_a = <<>> \/ vec_b = <<>> \/ Len(vec_a) # Len(vec_b) THEN 0
    ELSE IF Norm(vec_a) = 0 \/ Norm(vec_b) = 0 THEN 0
    ELSE (Dot(vec_a, vec_b) * 100) \div (Norm(vec_a) * Norm(vec_b))

CosineSimilarity(vec_a, vec_b) ==
    IF vec_a = <<>> \/ vec_b = <<>> \/ Len(vec_a) # Len(vec_b) THEN 0
    ELSE IF Norm(vec_a) = 0 \/ Norm(vec_b) = 0 THEN 0
    ELSE (Dot(vec_a, vec_b) * 100) \div (Norm(vec_a) * Norm(vec_b))

(***************************************************************************)
(* The access filter of search_semantic: the same query text in each of    *)
(* the four modality blocks.                                               *)
(***************************************************************************)
AccessFilterApplies(current_user) ==
    current_user # NoUser /\ RoleOf(current_user) # "admin"

AccessibleFilesIgnoringRestrictions(current_user, restr) == Files

AccessibleFiles(current_user, restr) ==
    {f \in Files : current_user \in restr[f] \/ restr[f] = {}}

ChunksAfterAccessControl(modality, current_user, restr) ==
    IF AccessFilterApplies(current_user)
    THEN {c \in Chunks : ModalityOf(c) = modality
                         /\ FileOfChunk(c) \in AccessibleFiles(current_user, restr)}
    ELSE {c \in Chunks : ModalityOf(c) = modality}

(***************************************************************************)
(* query.all(): the statement has no ORDER BY, so the rows come in an      *)
(* order the database chooses; ascending and descending id stand for it.   *)
(***************************************************************************)
RECURSIVE AscendingSeq(_)
AscendingSeq(S) ==
    IF S = {} THEN <<>>
    ELSE LET m == CHOOSE x \in S : \A y \in S : x <= y
         IN <<m>> \o AscendingSeq(S \ {m})

Reverse(s) == [i \in 1..Len(s) |-> s[Len(s) + 1 - i]]

QueryAll(S, order) ==
    IF order = "asc" THEN AscendingSeq(S) ELSE Reverse(AscendingSeq(S))

(***************************************************************************)
(* The body of the per-chunk loop: "skip" when the chunk is passed over    *)
(* (no embedding, JSONDecodeError, or an exception in scoring), else the   *)
(* similarity.                                                             *)
(***************************************************************************)
Skip == [skip |-> TRUE, similarity |-> 0]

Scored(similarity) == [skip |-> FALSE, similarity |-> similarity]

ChunkSimilarity(query_embedding, e) ==
    CASE e.kind = "null" -> Skip
      [] e.kind = "list" ->
            IF e.v = <<>> THEN Skip
            ELSE Scored(CosineSimilarity(query_embedding, e.v))
      [] e.kind = "str_invalid" -> Skip
      [] e.kind = "str_list" -> Scored(CosineSimilarity(query_embedding, e.v))
      [] OTHER -> Skip

KeptAlways(similarity, min_score) == TRUE

Kept(similarity, min_score) == similarity >= min_score

SourceOf(modality) ==
    CASE modality = "pdf" -> "Page"
      [] modality = "csv" -> "Row"
      [] modality = "xlsx" -> "Sheet, Row"
      [] OTHER -> "Chunk"

TypeOf(modality) ==
    CASE modality = "pdf" -> "PDF"
      [] modality = "csv" -> "CSV"
      [] modality = "xlsx" -> "XLSX"
      [] OTHER -> "WEBSITE"

ResultOf(c, similarity) ==
    [ content |-> c,
      score |-> similarity,
      source |-> SourceOf(ModalityOf(c)),
      type |-> TypeOf(ModalityOf(c)),
      filename |-> OriginalFilename(FileOfChunk(c)),
      chunk_id |-> ChunkId(c),
      file |-> FileOfChunk(c) ]

RECURSIVE ScoreChunksAbortOnBad(_, _, _, _)
ScoreChunksAbortOnBad(chunks, query_embedding, min_score, emb) ==
    IF chunks = <<>> THEN <<>>
    ELSE LET c == Head(chunks)
             s == ChunkSimilarity(query_embedding, emb[c])
         IN IF s.skip THEN <<>>
            ELSE IF Kept(s.similarity, min_score)
            THEN <<ResultOf(c, s.similarity)>>
                     \o ScoreChunksAbortOnBad(Tail(chunks), query_embedding, min_score, emb)
            ELSE ScoreChunksAbortOnBad(Tail(chunks), query_embedding, min_score, emb)

RECURSIVE ScoreChunks(_, _, _, _)
ScoreChunks(chunks, query_embedding, min_score, emb) ==
    IF chunks = <<>> THEN <<>>
    ELSE LET c == Head(chunks)
             s == ChunkSimilarity(query_embedding, emb[c])
             rest == ScoreChunks(Tail(chunks), query_embedding, min_score, emb)
         IN IF ~s.skip /\ Kept(s.similarity, min_score)
            THEN <<ResultOf(c, s.similarity)>> \o rest
            ELSE rest

(***************************************************************************)
(* str.lower() on the file_type argument                                   *)
(***************************************************************************)
Lower(s) ==
    CASE s = "PDF" -> "pdf"
      [] s = "CSV" -> "csv"
      [] s = "XLSX" -> "xlsx"
      [] s = "WEBSITE" -> "website"
      [] OTHER -> s

ModalitySearched(file_type, modality) ==
    file_type = None \/ Lower(file_type) = modality

ModalityOrder == <<"pdf", "csv", "xlsx", "website">>

ScannedChunks(file_type, current_user, restr) ==
    UNION { IF ModalitySearched(file_type, ModalityOrder[i])
            THEN ChunksAfterAccessControl(ModalityOrder[i], current_user, restr)
            ELSE {} : i \in 1..Len(ModalityOrder) }

RECURSIVE KeptResults(_, _, _, _, _, _, _, _)
KeptResults(i, query_embedding, min_score, file_type, current_user, restr, emb, order) ==
    IF i > Len(ModalityOrder) THEN <<>>
    ELSE LET m == ModalityOrder[i]
             here == IF ModalitySearched(file_type, m)
                     THEN ScoreChunks(
                              QueryAll(ChunksAfterAccessControl(m, current_user, restr), order),
                              query_embedding, min_score, emb)
                     ELSE <<>>
         IN here \o KeptResults(i + 1, query_embedding, min_score, file_type,
                                current_user, restr, emb, order)

(***************************************************************************)
(* results.sort(key=score, reverse=True): a stable sort, equal scores keep *)
(* the order in which they were appended.                                  *)
(***************************************************************************)
RECURSIVE InsertByScore(_, _)
InsertByScore(x, sorted) ==
    IF sorted = <<>> THEN <<x>>
    ELSE IF Head(sorted).score >= x.score
         THEN <<Head(sorted)>> \o InsertByScore(x, Tail(sorted))
         ELSE <<x>> \o sorted

RECURSIVE SortFrom(_, _)
SortFrom(results, acc) ==
    IF results = <<>> THEN acc
    ELSE SortFrom(Tail(results), InsertByScore(Head(results), acc))

SortUnsorted(results) == results

SortByScoreDesc(results) == SortFrom(results, <<>>)

(***************************************************************************)
(* results[:limit], Python slicing: a negative limit counts from the end.  *)
(***************************************************************************)
Min(a, b) == IF a <= b THEN a ELSE b

Max(a, b) == IF a >= b THEN a ELSE b

SliceDropLast(results, limit) ==
    SubSeq(results, 1, Max(Len(results) - 1, 0))

SliceTo(results, limit) ==
    IF limit >= 0
    THEN SubSeq(results, 1, Min(limit, Len(results)))
    ELSE SubSeq(results, 1, Max(Len(results) + limit, 0))

(***************************************************************************)
(* get_embedding(query) as seen by search_semantic: a vector, an empty     *)
(* value, or an exception.                                                 *)
(***************************************************************************)
Returned(v) == [v |-> v, raised |-> FALSE]

Raised == [v |-> <<>>, raised |-> TRUE]

QueryEmbeddings ==
    <<Returned(<<3, 4>>), Returned(<<4, 3>>), Returned(<<0, 5>>), Returned(<<>>), Raised>>

(***************************************************************************)
(* VectorStore.search_semantic                                             *)
(***************************************************************************)
SearchSemanticScanned(query_embedding, file_type, current_user, restr) ==
    IF query_embedding.raised \/ query_embedding.v = <<>> THEN {}
    ELSE ScannedChunks(file_type, current_user, restr)

SearchSemanticKeptUnguarded(query_embedding, min_score, file_type, current_user, restr, emb, order) ==
    KeptResults(1, query_embedding.v, min_score, file_type, current_user,
                restr, emb, order)

SearchSemanticKept(query_embedding, min_score, file_type, current_user, restr, emb, order) ==
    IF query_embedding.raised \/ query_embedding.v = <<>> THEN <<>>
    ELSE KeptResults(1, query_embedding.v, min_score, file_type, current_user,
                     restr, emb, order)

SearchSemantic(query_embedding, limit, min_score, file_type, current_user, restr, emb, order) ==
    SliceTo(SortByScoreDesc(
                SearchSemanticKept(query_embedding, min_score, file_type,
                                   current_user, restr, emb, order)),
            limit)

(***************************************************************************)
(* Texts.  A text is the concatenation of its lexemes.  The lexemes are    *)
(* chosen so that no keyword the code looks for ("select", "limit", a      *)
(* backtick, ";") arises across a lexeme boundary; a markdown fence is     *)
(* three backtick lexemes.                                                 *)
(***************************************************************************)
Backtick == "<backtick>"

DoubleQuote == "\""

Lexemes ==
    <<"SELECT", "select", "DROP", "x", ";", "LIMIT", Backtick, " ", "\n", "unlimited">>

IsSpace(l) == l = " " \/ l = "\n"

IsLetters(l) ==
    \/ l = "SELECT" \/ l = "select" \/ l = "DROP" \/ l = "x" \/ l = "LIMIT"
    \/ l = "unlimited" \/ l = "sql" \/ l = "FROM"

\* str.lower() of one lexeme
LowerLex(l) ==
    CASE l = "SELECT" -> "select"
      [] l = "DROP" -> "drop"
      [] l = "LIMIT" -> "limit"
      [] l = "FROM" -> "from"
      [] OTHER -> l

\* 'select' is a prefix of the (lower-cased) lexeme
LexStartsWithSelect(l) == LowerLex(l) = "select"

\* 'limit' is a substring of the (lower-cased) lexeme
LexContainsLimit(l) == LowerLex(l) = "limit" \/ LowerLex(l) = "unlimited"

RECURSIVE LStrip(_)
LStrip(t) ==
    IF t # <<>> /\ IsSpace(Head(t)) THEN LStrip(Tail(t)) ELSE t

RECURSIVE RStrip(_)
RStrip(t) ==
    IF t # <<>> /\ IsSpace(t[Len(t)]) THEN RStrip(SubSeq(t, 1, Len(t) - 1)) ELSE t

\* str.strip()
Strip(t) == RStrip(LStrip(t))

\* str.lower().startswith('select')
StartsWithSelectAnywhere(t) == \E i \in 1..Len(t) : LexStartsWithSelect(t[i])

StartsWithSelect(t) == t # <<>> /\ LexStartsWithSelect(t[1])

\* 'limit' in str.lower()
ContainsLimit(t) == \E i \in 1..Len(t) : LexContainsLimit(t[i])

RECURSIVE DropLetters(_)
DropLetters(t) ==
    IF t # <<>> /\ IsLetters(Head(t)) THEN DropLetters(Tail(t)) ELSE t

IsFenceAt(t, i) ==
    i >= 1 /\ i + 2 <= Len(t) /\ t[i] = Backtick /\ t[i + 1] = Backtick /\ t[i + 2] = Backtick

\* re.sub(r'^```[a-zA-Z]*\n?', '', t)
RemoveOpeningFence(t) ==
    IF IsFenceAt(t, 1)
    THEN LET rest == DropLetters(SubSeq(t, 4, Len(t)))
         IN IF rest # <<>> /\ Head(rest) = "\n" THEN Tail(rest) ELSE rest
    ELSE t

\* re.sub(r'```$', '', t); "$" also matches before one final newline
RemoveClosingFence(t) ==
    IF IsFenceAt(t, Len(t) - 2) THEN SubSeq(t, 1, Len(t) - 3)
    ELSE IF t # <<>> /\ t[Len(t)] = "\n" /\ IsFenceAt(t, Len(t) - 3)
         THEN SubSeq(t, 1, Len(t) - 4) \o <<"\n">>
         ELSE t

\* re.search(r'(SELECT[\s\S]+?;)', t, re.IGNORECASE): the leftmost SELECT
\* that has a ";" at least one character later, up to the first such ";".
SelectMatches(t, p) ==
    /\ LexStartsWithSelect(t[p])
    /\ \E q \in (p + 2)..Len(t) : t[q] = ";"

FirstSemicolonFrom(t, p) ==
    CHOOSE q \in p..Len(t) : t[q] = ";" /\ \A r \in p..(q - 1) : t[r] # ";"

ExtractFirstStatement(t) ==
    IF \E p \in 1..Len(t) : SelectMatches(t, p)
    THEN LET p == CHOOSE p \in 1..Len(t) :
                     SelectMatches(t, p) /\ \A r \in 1..(p - 1) : ~SelectMatches(t, r)
         IN SubSeq(t, p, FirstSemicolonFrom(t, p + 2))
    ELSE t

\* re.sub(r'`([^`]+)`', r'"\1"', t)
RECURSIVE ReplaceBackticks(_)
ReplaceBackticks(t) ==
    IF t = <<>> THEN <<>>
    ELSE IF Head(t) = Backtick /\ Len(t) >= 3 /\ t[2] # Backtick
              /\ \E j \in 3..Len(t) : t[j] = Backtick
         THEN LET j == CHOOSE j \in 3..Len(t) :
                          t[j] = Backtick /\ \A r \in 2..(j - 1) : t[r] # Backtick
              IN <<DoubleQuote>> \o SubSeq(t, 2, j - 1) \o <<DoubleQuote>>
                 \o ReplaceBackticks(SubSeq(t, j + 1, Len(t)))
         ELSE <<Head(t)>> \o ReplaceBackticks(Tail(t))

(***************************************************************************)
(* VectorStore._generate_sql_query.  completion is what chat.ainvoke gave: *)
(* a text, or an exception (also raised by get_groq_chat).                 *)
(***************************************************************************)
Completed(t) == [content |-> t, raised |-> FALSE]

CompletionRaised == [content |-> <<>>, raised |-> TRUE]

DefaultSelect(table_name) ==
    <<"SELECT", " ", "*", " ", "FROM", " ", table_name, " ", "LIMIT", " ", "10">>

GenerateSqlQueryUnchecked(completion, table_name) ==
    IF completion.raised THEN DefaultSelect(table_name)
    ELSE Strip(completion.content)

GenerateSqlQuery(completion, table_name) ==
    IF completion.raised THEN DefaultSelect(table_name)
    ELSE LET sql_query == Strip(completion.content)
         IN IF ~StartsWithSelect(sql_query)
            THEN DefaultSelect(table_name)
            ELSE sql_query

(***************************************************************************)
(* VectorStore._execute_sql_query: ExecutedText is the text handed to      *)
(* conn.execute; db is what the database does with it.                     *)
(***************************************************************************)
CleanedQuery(sql_query) ==
    Strip(RemoveClosingFence(RemoveOpeningFence(Strip(sql_query))))

AppendLimit(extracted_query, limit) ==
    IF ~ContainsLimit(extracted_query)
    THEN extracted_query \o <<" ", "LIMIT", " ", ToString(limit)>>
    ELSE extracted_query

ExecutedText(sql_query, limit) ==
    AppendLimit(ReplaceBackticks(ExtractFirstStatement(CleanedQuery(sql_query))), limit)

DbError == [error |-> TRUE, rows |-> 0]

DbRows(n) == [error |-> FALSE, rows |-> n]

ExecuteSqlQueryErrorDropped(sql_query, limit, db) ==
    [error |-> FALSE, data |-> db.rows, row_count |-> db.rows]

ExecuteSqlQuery(sql_query, limit, db) ==
    IF db.error
    THEN [error |-> TRUE, data |-> 0, row_count |-> 0]
    ELSE [error |-> FALSE, data |-> db.rows, row_count |-> db.rows]

(***************************************************************************)
(* The documents of the SQL-capable files: the insights summary and the    *)
(* table name kept in the document header (csv) or sheet_names (xlsx).     *)
(* The csv file has both; the xlsx file has neither, so its table name is  *)
(* reconstructed.                                                          *)
(***************************************************************************)
HeaderTableNames == <<None, "sales", None, None, None>>

HeaderInsights == <<None, "insights", None, None, None>>

InsightsEmbedding == <<4, 3>>

TableNameOf(file_id) ==
    IF HeaderTableNames[file_id] # None THEN HeaderTableNames[file_id]
    ELSE IF FileTypeOf(file_id) = "csv" THEN "csv_data_" \o ToString(file_id)
    ELSE IF FileTypeOf(file_id) = "xlsx" THEN "xlsx_data_" \o ToString(file_id)
    ELSE None

(***************************************************************************)
(* VectorStore._search_semantic_for_sql_rag                                *)
(***************************************************************************)
SqlRagChunkLimit == 5

SqlRagThreshold == 50

\* _cosine_similarity on the stored value as it is (no json.loads here): a
\* string differs in length from the query vector and scores 0.0.
RawSimilarity(query_embedding, e) ==
    IF e.kind = "list" THEN CosineSimilarity(query_embedding, e.v) ELSE 0

RawTruthy(e) == ~(e.kind = "null" \/ (e.kind = "list" /\ e.v = <<>>))

RECURSIVE SqlRagChunkResults(_, _, _, _)
SqlRagChunkResults(chunks, query_embedding, file_id, emb) ==
    IF chunks = <<>> THEN <<>>
    ELSE LET c == Head(chunks)
             rest == SqlRagChunkResults(Tail(chunks), query_embedding, file_id, emb)
         IN IF RawTruthy(emb[c]) /\ query_embedding # <<>>
               /\ RawSimilarity(query_embedding, emb[c]) > SqlRagThreshold
            THEN <<[ content |-> c,
                     score |-> RawSimilarity(query_embedding, emb[c]),
                     source |-> "Row",
                     type |-> "DOCUMENT_CHUNK",
                     filename |-> OriginalFilename(file_id) ]>> \o rest
            ELSE rest

SearchSemanticForSqlRag(query_embedding, file_id, emb) ==
    IF query_embedding.raised THEN <<>>
    ELSE LET insights == HeaderInsights[file_id]
             fromInsights ==
                 IF insights # None /\ query_embedding.v # <<>>
                    /\ CosineSimilarity(query_embedding.v, InsightsEmbedding) > SqlRagThreshold
                 THEN <<[ content |-> 0,
                          score |-> CosineSimilarity(query_embedding.v, InsightsEmbedding),
                          source |-> "Database Insights",
                          type |-> "SQL_INSIGHTS",
                          filename |-> <<"Database Analysis", 0>> ]>>
                 ELSE <<>>
             all == AscendingSeq({c \in Chunks : FileOfChunk(c) = file_id})
             chunks == IF FileTypeOf(file_id) = "csv" \/ FileTypeOf(file_id) = "xlsx"
                       THEN SubSeq(all, 1, Min(SqlRagChunkLimit, Len(all)))
                       ELSE <<>>
         IN fromInsights \o SqlRagChunkResults(chunks, query_embedding.v, file_id, emb)

(***************************************************************************)
(* VectorStore.search_sql_rag                                              *)
(***************************************************************************)
SqlRagAccessDenied(file_id, current_user, restr) ==
    /\ current_user # NoUser
    /\ RoleOf(current_user) # "admin"
    /\ current_user \notin restr[file_id]
    /\ restr[file_id] # {}

SqlRagError(error) ==
    [ table_name |-> None,
      sql_query |-> <<>>,
      error |-> error,
      executed |-> <<>>,
      db_called |-> FALSE,
      sql_results |-> [error |-> FALSE, data |-> 0, row_count |-> 0],
      semantic_results |-> <<>>,
      use_sql |-> FALSE,
      use_semantic |-> FALSE,
      combined_approach |-> FALSE ]

SearchSqlRag(file_id, limit, current_user, completion, db, query_embedding, restr, emb) ==
    IF file_id \notin Files THEN SqlRagError("File not found")
    ELSE IF SqlRagAccessDenied(file_id, current_user, restr)
    THEN SqlRagError("Access denied")
    ELSE IF TableNameOf(file_id) = None
    THEN SqlRagError("No SQL data available for this file")
    ELSE LET table_name == TableNameOf(file_id)
             sql_query == GenerateSqlQuery(completion, table_name)
             sql_results == ExecuteSqlQuery(sql_query, limit, db)
             semantic_results == SearchSemanticForSqlRag(query_embedding, file_id, emb)
             use_sql == sql_results.data > 0
             use_semantic == Len(semantic_results) > 0
         IN [ table_name |-> table_name,
              sql_query |-> sql_query,
              error |-> None,
              executed |-> ExecutedText(sql_query, limit),
              db_called |-> TRUE,
              sql_results |-> sql_results,
              semantic_results |-> semantic_results,
              use_sql |-> use_sql,
              use_semantic |-> use_semantic,
              combined_approach |-> use_sql /\ use_semantic ]

(***************************************************************************)
(* VectorStore.hybrid_sql_semantic_search                                  *)
(***************************************************************************)
HybridResponseTypeSqlFirst(sql_results, semantic_results) ==
    IF sql_results.row_count > 0 THEN "sql_primary"
    ELSE IF semantic_results # <<>> THEN "semantic_primary"
    ELSE "no_results"

HybridResponseType(sql_results, semantic_results) ==
    IF sql_results.row_count > 0
    THEN IF semantic_results # <<>> THEN "hybrid" ELSE "sql_primary"
    ELSE IF semantic_results # <<>> THEN "semantic_primary"
    ELSE "no_results"

HybridSqlSemanticSearch(file_id, limit, current_user, completion, db, query_embedding, restr, emb) ==
    LET sql_rag_results == SearchSqlRag(file_id, limit, current_user, completion, db,
                                        query_embedding, restr, emb)
    IN IF sql_rag_results.error # None
       THEN [rag |-> sql_rag_results, response_type |-> None]
       ELSE [ rag |-> sql_rag_results,
              response_type |-> HybridResponseType(sql_rag_results.sql_results,
                                                   sql_rag_results.semantic_results) ]

(***************************************************************************)
(* llm_utils.get_groq_chat as seen by its callers.  It raises without      *)
(* reaching the provider when the client library or the API key is missing *)
(* ("unavailable"); otherwise it builds the client and sends one test      *)
(* message to the provider, and raises RuntimeError when that request      *)
(* fails ("test_failed").                                                  *)
(***************************************************************************)
GetGroqChat(init) ==
    IF init = "unavailable" THEN [raised |-> TRUE, requests |-> 0]
    ELSE IF init = "test_failed" THEN [raised |-> TRUE, requests |-> 1]
    ELSE [raised |-> FALSE, requests |-> 1]

(***************************************************************************)
(* VectorStore.generate_insights_from_chunks.  A chunk is a dict: a record *)
(* whose domain is the set of keys it has.  Its texts (filename, source,   *)
(* type) are sequences of lexemes, <<>> being the empty string.            *)
(***************************************************************************)
ChunkGet(chunk, key, default) ==
    IF key \in DOMAIN chunk THEN chunk[key] ELSE default

\* f"{filename} ({source})"
SourceKeyText(filename, source) == filename \o <<" (">> \o source \o <<")">>

ExtractSourcesKeepingAll(chunks, seen_sources) ==
    [k \in 1..Len(chunks) |->
        [ source |-> ChunkGet(chunks[k], "source", <<"N/A">>),
          type |-> ChunkGet(chunks[k], "type", <<"Unknown">>),
          filename |-> ChunkGet(chunks[k], "filename", <<"Unknown Document">>) ]]

\* The loop over the chunks that collects the unique sources, a chunk
\* without a filename, source or type counting as 'Unknown Document', 'N/A'
\* or 'Unknown'.
RECURSIVE ExtractSources(_, _)
ExtractSources(chunks, seen_sources) ==
    IF chunks = <<>> THEN <<>>
    ELSE LET chunk == Head(chunks)
             filename == ChunkGet(chunk, "filename", <<"Unknown Document">>)
             source == ChunkGet(chunk, "source", <<"N/A">>)
             source_key == SourceKeyText(filename, source)
         IN IF source_key \notin seen_sources
            THEN <<[ source |-> source,
                     type |-> ChunkGet(chunk, "type", <<"Unknown">>),
                     filename |-> filename ]>>
                     \o ExtractSources(Tail(chunks), seen_sources \cup {source_key})
            ELSE ExtractSources(Tail(chunks), seen_sources)

FormatSource(src) ==
    src.filename
        \o (IF src.source # <<>> THEN <<" (Page ">> \o src.source \o <<")">> ELSE <<>>)
        \o (IF src.type # <<>> THEN <<" - ">> \o src.type ELSE <<>>)

\* "SOURCES:" in response_text.upper(): a substring test on the upper-cased
\* text, which any lexeme that ends in "sources:" in any case satisfies.
ContainsSources(response_text) ==
    \E k \in 1..Len(response_text) :
       \/ response_text[k] = "SOURCES:"
       \/ response_text[k] = "Sources:"
       \/ response_text[k] = "sources:"
       \/ response_text[k] = "resources:"

\* "\n".join([f"- {src}" for src in formatted_sources])
RECURSIVE SourcesText(_)
SourcesText(formatted_sources) ==
    IF formatted_sources = <<>> THEN <<>>
    ELSE <<"- ">> \o Head(formatted_sources)
             \o (IF Tail(formatted_sources) = <<>> THEN <<>> ELSE <<"\n">>)
             \o SourcesText(Tail(formatted_sources))

EnsureSourcesListed(response_text, formatted_sources) ==
    IF ~ContainsSources(response_text) /\ formatted_sources # <<>>
    THEN response_text \o <<"\n\nSOURCES:\n">> \o SourcesText(formatted_sources)
    ELSE response_text

NoRelevantInformation ==
    <<"I couldn't find any relevant information to answer your question based on the available documents.">>

\* What the completion provider does during one synthesis: init is the
\* outcome of get_groq_chat, and generation that of chat.agenerate (an
\* exception, a result without generations, or a text).
Provider(init, raised, generations, text) ==
    [raised |-> raised, init |-> init, generations |-> generations, text |-> text]

\* The keys of the error response, list(set([...])): a set has no order, so
\* the list comes in an order the interpreter chooses; first-occurrence
\* order and its reverse stand for it.
RECURSIVE DistinctKeys(_, _)
DistinctKeys(chunks, seen) ==
    IF chunks = <<>> THEN <<>>
    ELSE LET key == SourceKeyText(Head(chunks).filename, Head(chunks).source)
         IN IF key \notin seen
            THEN <<key>> \o DistinctKeys(Tail(chunks), seen \cup {key})
            ELSE DistinctKeys(Tail(chunks), seen)

\* The except branch.  chunk['filename'] and chunk['source'] raise KeyError
\* for a chunk without that key, and nothing catches it there.
InsightsErrorResponse(chunks, error, requests, order) ==
    IF \E k \in 1..Len(chunks) :
          "filename" \notin DOMAIN chunks[k] \/ "source" \notin DOMAIN chunks[k]
    THEN [ error |-> <<"KeyError">>,
           requests |-> requests,
           sources |-> <<>>,
           response |-> <<>>,
           propagated |-> TRUE,
           success_present |-> FALSE,
           success |-> FALSE ]
    ELSE [ error |-> error,
           requests |-> requests,
           sources |-> IF order = "asc" THEN DistinctKeys(chunks, {})
                       ELSE Reverse(DistinctKeys(chunks, {})),
           response |-> <<"I encountered an error while generating a response: ">> \o error,
           propagated |-> FALSE,
           success_present |-> TRUE,
           success |-> FALSE ]

GenerateInsightsFromChunks(chunks, provider, order) ==
    IF chunks = <<>>
    THEN [ error |-> <<>>,
           requests |-> 0,
           sources |-> <<>>,
           response |-> NoRelevantInformation,
           propagated |-> FALSE,
           success_present |-> FALSE,
           success |-> FALSE ]
    ELSE LET chat_model == GetGroqChat(provider.init)
         IN IF chat_model.raised
            THEN InsightsErrorResponse(chunks, <<"Failed to initialize Groq chat">>,
                                       chat_model.requests, order)
            ELSE IF provider.raised
            THEN InsightsErrorResponse(chunks, <<"agenerate failed">>,
                                       chat_model.requests + 1, order)
            ELSE LET response_text ==
                         IF provider.generations THEN provider.text
                         ELSE <<"I'm sorry, I encountered an error generating a response. Please try again later.">>
                     sources == ExtractSources(chunks, {})
                     formatted_sources ==
                         [k \in 1..Len(sources) |-> FormatSource(sources[k])]
                 IN [ error |-> <<>>,
                      requests |-> chat_model.requests + 1,
                      sources |-> formatted_sources,
                      response |-> EnsureSourcesListed(response_text, formatted_sources),
                      propagated |-> FALSE,
                      success_present |-> TRUE,
                      success |-> TRUE ]

(***************************************************************************)
(* main.can_access_file                                                    *)
(***************************************************************************)
can_access_file(file, user, restr) ==
    IF RoleOf(user) = UserRole_ADMIN THEN TRUE
    ELSE IF restr[file] # {} THEN user \in restr[file]
    ELSE TRUE

(***************************************************************************)
(* State.  restricted is the file_restrictions association table and       *)
(* embedding the embedding column of the chunk tables.  A request is       *)
(* served from pc = "idle"; its transient result is held (sem, sqlr, chat) *)
(* until Respond returns it.                                               *)
(***************************************************************************)
NoSem ==
    [ current_user |-> NoUser,
      order |-> "asc",
      query_embedding |-> Raised,
      min_score |-> 0,
      file_type |-> None,
      limit |-> 0,
      scanned |-> {},
      kept |-> <<>>,
      result |-> <<>> ]

NoSql ==
    [ current_user |-> NoUser,
      query_embedding |-> Raised,
      limit |-> 0,
      completion |-> CompletionRaised,
      db |-> DbError,
      file_id |-> 0,
      out |-> [rag |-> SqlRagError(None), response_type |-> None] ]

NoChat ==
    [ current_user |-> NoUser,
      i |-> 0,
      min_score |-> 0,
      response_type |-> None,
      sources |-> <<>>,
      response |-> <<>>,
      rag_limit |-> 0,
      files |-> <<>>,
      all_sql_results |-> <<>>,
      all_semantic_results |-> <<>>,
      file_infos |-> <<>>,
      aggregated |-> FALSE,
      status |-> 0 ]

NoSyn ==
    [ chunks |-> <<>>,
      provider |-> Provider("none", FALSE, FALSE, <<>>),
      out |-> [ error |-> <<>>,
                requests |-> 0,
                sources |-> <<>>,
                response |-> <<>>,
                propagated |-> FALSE,
                success_present |-> FALSE,
                success |-> FALSE ] ]

NoRetry ==
    [ status |-> "none",
      module |-> None,
      max_retries |-> 0,
      initial_delay |-> 0,
      attempt |-> 0,
      delay |-> 0,
      outcomes |-> <<>>,
      sleeps |-> <<>> ]

NoCos == [vec_a |-> <<>>, vec_b |-> <<>>, out |-> 0]

NoUpload ==
    [ current_user |-> 0,
      chunks |-> 0,
      raised |-> FALSE,
      file_id |-> 0,
      files |-> <<>>,
      outcomes |-> <<>>,
      handler |-> None,
      step |-> "none",
      docs |-> <<>>,
      own_file_id |-> 0,
      website_id |-> 0,
      scraped |-> None,
      status_code |-> 0 ]

NoRestrictions == [f \in Files |-> {}]

MaxRestrictedFiles == 2

RestrictedFiles(restr) == {f \in Files : restr[f] # {}}

(***************************************************************************)
(* POST /api/files/{file_id}/restrictions (admin only): clear the list,    *)
(* then add the users of user_ids that exist.                              *)
(***************************************************************************)
UserIdInputs == 1..(Len(UserRoles) + 1)

SetFileRestrictions ==
    /\ pc = "idle"
    /\ \E admin \in Users, file_id \in Files, user_ids \in SUBSET UserIdInputs :
          /\ RoleOf(admin) = UserRole_ADMIN
          /\ restricted' = [restricted EXCEPT ![file_id] = user_ids \cap Users]
    /\ Cardinality(RestrictedFiles(restricted')) <= MaxRestrictedFiles
    /\ UNCHANGED <<embedding, pc, sem, sqlr, chat, syn, retry, cos, upload>>

(***************************************************************************)
(* A call of search_semantic with arguments drawn from the given sets.     *)
(***************************************************************************)
\* The argument sets are given as tuples and drawn by index.
FileTypeInputs == <<None, "pdf", "csv", "xlsx", "website", "PDF", "docx">>

Orders == <<"asc", "desc">>

\* The completion provider's behaviours during one synthesis.
Providers ==
    << Provider("unavailable", FALSE, FALSE, <<>>),
       Provider("test_failed", FALSE, FALSE, <<>>),
       Provider("ok", TRUE, FALSE, <<>>),
       Provider("ok", FALSE, FALSE, <<>>),
       Provider("ok", FALSE, TRUE, <<"answer">>),
       Provider("ok", FALSE, TRUE, <<"answer", "\n", "Sources:", "\n", "a.pdf">>),
       Provider("ok", FALSE, TRUE, <<"see", " ", "resources:", " ", "a.pdf">>) >>

AnyUser == NoUser..Len(UserRoles)

SearchSemanticCall(embeddings, limits, min_scores, file_types, users, orders) ==
    /\ pc = "idle"
    /\ \E qi \in DOMAIN embeddings, limit \in limits, mi \in DOMAIN min_scores,
          fi \in DOMAIN file_types, current_user \in users, oi \in DOMAIN orders :
          LET q == embeddings[qi]
              min_score == min_scores[mi]
              file_type == file_types[fi]
              order == orders[oi]
          IN
          sem' = [ current_user |-> current_user,
                   order |-> order,
                   query_embedding |-> q,
                   min_score |-> min_score,
                   file_type |-> file_type,
                   limit |-> limit,
                   scanned |-> SearchSemanticScanned(q, file_type, current_user,
                                                     restricted),
                   kept |-> SearchSemanticKept(q, min_score, file_type, current_user,
                                               restricted, embedding, order),
                   result |-> SearchSemantic(q, limit, min_score, file_type,
                                             current_user, restricted, embedding, order) ]
    /\ pc' = "semantic"
    /\ UNCHANGED <<restricted, embedding, sqlr, chat, syn, retry, cos, upload>>

(***************************************************************************)
(* A call of hybrid_sql_semantic_search (which calls search_sql_rag) with  *)
(* the given completion and the other inputs drawn from the given tuples.  *)
(***************************************************************************)
SqlRagCall(completion, file_ids, limits, users, dbs, embeddings) ==
    /\ pc = "idle"
    /\ \E file_id \in file_ids, li \in DOMAIN limits, current_user \in users,
          di \in DOMAIN dbs, qi \in DOMAIN embeddings :
          sqlr' = [ current_user |-> current_user,
                    query_embedding |-> embeddings[qi],
                    limit |-> limits[li],
                    completion |-> completion,
                    db |-> dbs[di],
                    file_id |-> file_id,
                    out |-> HybridSqlSemanticSearch(file_id, limits[li], current_user,
                                                    completion, dbs[di], embeddings[qi],
                                                    restricted, embedding) ]
    /\ pc' = "sql"
    /\ UNCHANGED <<restricted, embedding, sem, chat, syn, retry, cos, upload>>

(***************************************************************************)
(* POST /api/chat.  ChatStart reads the request and lists the accessible   *)
(* files; ChatFile is one iteration of the loop over them (the decision    *)
(* step and the engine it picks); ChatAggregate is the rest of the handler.*)
(* An exception that no inner try catches reaches the handler's outer      *)
(* except, which answers 500.                                              *)
(***************************************************************************)
ChatAccessibleFiles(current_user, restr) ==
    IF RoleOf(current_user) = "admin" THEN AscendingSeq(Files)
    ELSE AscendingSeq({f \in Files : can_access_file(f, current_user, restr)})

ChatStart(users, rag_limits, min_scores) ==
    /\ pc = "idle"
    /\ \E current_user \in users, li \in DOMAIN rag_limits, mi \in DOMAIN min_scores,
          has_user_message \in BOOLEAN :
          IF has_user_message
          THEN /\ chat' = [NoChat EXCEPT !.current_user = current_user,
                                         !.rag_limit = rag_limits[li],
                                         !.min_score = min_scores[mi],
                                         !.files = ChatAccessibleFiles(current_user, restricted),
                                         !.i = 1]
               /\ pc' = "chat_loop"
          ELSE /\ chat' = [NoChat EXCEPT !.current_user = current_user,
                                         !.status = 400,
                                         !.response = <<"No user message provided.">>]
               /\ pc' = "chat_done"
    /\ UNCHANGED <<restricted, embedding, sem, sqlr, syn, retry, cos, upload>>

\* The decision step consults the completion provider only for a csv or
\* xlsx file whose rag_type is RagType.SQL.
NeedsDecision(file) ==
    (FileTypeOf(file) = "csv" \/ FileTypeOf(file) = "xlsx") /\ RagTypeOf(file) = "sql"

DecisionRaised == "<raised>"

Decisions == <<"sql", "semantic", "hybrid", "unsure", DecisionRaised>>

FileInfoOfFile(file) ==
    [filename |-> OriginalFilename(file), file_type |-> FileTypeOf(file)]

FileInfoOfResult(result, file) ==
    IF result.rag.error # None
    THEN [filename |-> OriginalFilename(file), file_type |-> None]
    ELSE [filename |-> OriginalFilename(file), file_type |-> FileTypeOf(file)]

TagAll(results, file_info) ==
    [k \in 1..Len(results) |-> [r |-> results[k], file_info |-> file_info]]

ChatAbort ==
    [chat EXCEPT !.status = 500,
                 !.response = <<"An error occurred while processing your request.">>,
                 !.sources = <<>>]

ChatSqlBranch(file, rag_decision, result) ==
    [chat EXCEPT
        !.all_sql_results =
            IF result.rag.error = None /\ result.rag.sql_results.row_count > 0
            THEN Append(@, [r |-> result, file_info |-> FileInfoOfResult(result, file)])
            ELSE @,
        !.all_semantic_results =
            IF rag_decision = "hybrid" /\ result.rag.semantic_results # <<>>
            THEN @ \o TagAll(result.rag.semantic_results, FileInfoOfResult(result, file))
            ELSE @,
        !.file_infos = Append(@, FileInfoOfResult(result, file)),
        !.i = @ + 1]

ChatSemanticBranch(file, semantic_chunks) ==
    [chat EXCEPT
        !.all_semantic_results =
            IF semantic_chunks # <<>>
            THEN @ \o TagAll(semantic_chunks, FileInfoOfFile(file))
            ELSE @,
        !.file_infos =
            IF semantic_chunks # <<>> THEN Append(@, FileInfoOfFile(file)) ELSE @,
        !.i = @ + 1]

ChatFile(decisions, completions, dbs, embeddings, orders) ==
    /\ pc = "chat_loop"
    /\ chat.i <= Len(chat.files)
    /\ \E ki \in DOMAIN decisions, ci \in DOMAIN completions, di \in DOMAIN dbs,
          qi \in DOMAIN embeddings, oi \in DOMAIN orders :
          LET file == chat.files[chat.i]
              rag_decision == IF NeedsDecision(file) THEN decisions[ki] ELSE "semantic"
          IN IF rag_decision = DecisionRaised
             THEN /\ chat' = ChatAbort
                  /\ pc' = "chat_done"
             ELSE /\ chat' =
                       IF rag_decision = "sql" \/ rag_decision = "hybrid"
                       THEN ChatSqlBranch(file, rag_decision,
                                HybridSqlSemanticSearch(file, chat.rag_limit,
                                    chat.current_user, completions[ci], dbs[di],
                                    embeddings[qi], restricted, embedding))
                       ELSE ChatSemanticBranch(file,
                                SearchSemantic(embeddings[qi], chat.rag_limit,
                                    chat.min_score, FileTypeOf(file), chat.current_user,
                                    restricted, embedding, orders[oi]))
                  /\ pc' = "chat_loop"
    /\ UNCHANGED <<restricted, embedding, sem, sqlr, syn, retry, cos, upload>>

ChatResponseType(all_sql_results, all_semantic_results) ==
    IF all_sql_results # <<>> /\ all_semantic_results # <<>> THEN "hybrid"
    ELSE IF all_sql_results # <<>> THEN "sql_primary"
    ELSE IF all_semantic_results # <<>> THEN "semantic_primary"
    ELSE "no_results"

Filenames(file_infos) == [k \in 1..Len(file_infos) |-> file_infos[k].filename]

\* The chunks the handler hands to the synthesis: up to three rows of each
\* SQL result, then every semantic result; none of them has a filename key.
ContextChunks(all_sql_results, all_semantic_results) ==
    LET with_data == SelectSeq(all_sql_results, LAMBDA sql : sql.r.rag.sql_results.data > 0)
    IN [k \in 1..Len(with_data) |->
           [ content |-> Min(with_data[k].r.rag.sql_results.data, 3),
             score |-> 100,
             source |-> with_data[k].file_info.filename,
             type |-> <<"SQL">> ]]
       \o [k \in 1..Len(all_semantic_results) |->
              [ content |-> all_semantic_results[k].r.content,
                score |-> all_semantic_results[k].r.score,
                source |-> all_semantic_results[k].file_info.filename,
                type |-> <<all_semantic_results[k].r.type>> ]]

\* JSONResponse(content=response_data) encodes the payload with json.dumps
\* when it is constructed.  A result of search_semantic carries the File row
\* of its chunk under 'file', which json.dumps rejects with TypeError.
JsonSerializable(all_semantic_results) ==
    \A k \in 1..Len(all_semantic_results) : "file" \notin DOMAIN all_semantic_results[k].r

\* Aggregation, synthesis and the construction of the response.
ChatAggregate(providers, orders) ==
    /\ pc = "chat_loop"
    /\ chat.i > Len(chat.files)
    /\ \E pi \in DOMAIN providers, oi \in DOMAIN orders :
          LET response_type == ChatResponseType(chat.all_sql_results,
                                                chat.all_semantic_results)
              insights == GenerateInsightsFromChunks(
                              ContextChunks(chat.all_sql_results, chat.all_semantic_results),
                              providers[pi], orders[oi])
              has_results == chat.all_sql_results # <<>> \/ chat.all_semantic_results # <<>>
              response_data ==
                  [chat EXCEPT
                      !.aggregated = TRUE,
                      !.response_type = response_type,
                      !.status = 200,
                      !.response =
                          IF ~has_results
                          THEN <<"I couldn't find any relevant information to answer your question.">>
                          ELSE IF insights.propagated
                          THEN <<"I found relevant data, but couldn't generate a unified answer. Please review the results below.">>
                          ELSE insights.response,
                      !.sources = IF has_results /\ ~insights.propagated
                                  THEN insights.sources
                                  ELSE Filenames(chat.file_infos)]
          IN chat' = IF JsonSerializable(chat.all_semantic_results)
                     THEN response_data
                     ELSE [response_data EXCEPT
                              !.status = 500,
                              !.response = <<"An error occurred while processing your request.">>,
                              !.sources = <<>>]
    /\ pc' = "chat_done"
    /\ UNCHANGED <<restricted, embedding, sem, sqlr, syn, retry, cos, upload>>

\* A direct call of generate_insights_from_chunks with up to max_len chunks
\* taken from samples.
GenerateInsights(samples, max_len, providers, orders) ==
    /\ pc = "idle"
    /\ \E len \in 0..max_len, pi \in DOMAIN providers, oi \in DOMAIN orders :
          \E pick \in [1..len -> 1..Len(samples)] :
             LET chunks == [k \in 1..len |-> samples[pick[k]]]
             IN syn' = [ chunks |-> chunks,
                         provider |-> providers[pi],
                         out |-> GenerateInsightsFromChunks(chunks, providers[pi],
                                                            orders[oi]) ]
    /\ pc' = "insights"
    /\ UNCHANGED <<restricted, embedding, sem, sqlr, chat, retry, cos, upload>>

(***************************************************************************)
(* get_embedding_with_retry of llm_utils (async) and of embedding_utils.   *)
(* An attempt is one call of get_embedding, which returns a non-empty      *)
(* embedding ("ok") or raises asyncio.TimeoutError, aiohttp.ClientError, a *)
(* ValueError whose message contains "empty" or "invalid"                  *)
(* ("validation_error"), a ValueError with another message ("value_error", *)
(* e.g. "Embedding is not a list") or another exception ("error", e.g. a   *)
(* non-200 status).  outcomes lists the attempts made and sleeps the       *)
(* waits, in seconds.  status is "embedding" or "None" for what was        *)
(* returned, and "raised" for an exception that left the function.         *)
(***************************************************************************)
EMBEDDING_RETRY_DELAY == 5

EmbeddingOutcomes ==
    <<"ok", "timeout", "client_error", "validation_error", "value_error", "error">>

GetEmbeddingWithRetry(modules, retry_counts, initial_delays) ==
    /\ pc = "idle"
    /\ \E mi \in DOMAIN modules, max_retries \in retry_counts, di \in DOMAIN initial_delays :
          /\ retry' = [NoRetry EXCEPT !.module = modules[mi],
                                      !.max_retries = max_retries,
                                      !.initial_delay = initial_delays[di],
                                      !.delay = initial_delays[di],
                                      !.status = IF max_retries > 0 THEN "running" ELSE None]
          /\ pc' = IF max_retries > 0 THEN "retry" ELSE "retry_done"
    /\ UNCHANGED <<restricted, embedding, sem, sqlr, chat, syn, cos, upload>>

\* One iteration of the for loop of llm_utils.get_embedding_with_retry.
LlmRetryIteration(r, outcome) ==
    LET made == [r EXCEPT !.outcomes = Append(@, outcome)]
        last == r.attempt = r.max_retries - 1
        again == [made EXCEPT !.attempt = @ + 1,
                              !.sleeps = Append(@, r.delay),
                              !.delay = Min(r.delay * 2, 30)]
    IN IF outcome = "ok" THEN [made EXCEPT !.status = "embedding"]
       ELSE IF outcome = "timeout" \/ outcome = "client_error"
       THEN IF last THEN [made EXCEPT !.status = "raised"] ELSE again
       ELSE IF outcome = "validation_error" THEN [made EXCEPT !.status = None]
       ELSE IF last THEN [made EXCEPT !.status = None] ELSE again

\* One iteration of the for loop of embedding_utils.get_embedding_with_retry.
SyncRetryIteration(r, outcome) ==
    LET made == [r EXCEPT !.outcomes = Append(@, outcome)]
    IN IF outcome = "ok" THEN [made EXCEPT !.status = "embedding"]
       ELSE IF r.attempt = r.max_retries - 1 THEN [made EXCEPT !.status = None]
       ELSE [made EXCEPT !.attempt = @ + 1,
                         !.sleeps = Append(@, EMBEDDING_RETRY_DELAY * (r.attempt + 1))]

RetryIterationOneMore(r, outcome) ==
    LET made == [r EXCEPT !.outcomes = Append(@, outcome)]
    IN IF outcome = "ok" THEN [made EXCEPT !.status = "embedding"]
       ELSE IF r.attempt = r.max_retries THEN [made EXCEPT !.status = None]
       ELSE [made EXCEPT !.attempt = @ + 1, !.sleeps = Append(@, r.delay)]

RetryIteration(r, outcome) ==
    IF r.module = "llm_utils" THEN LlmRetryIteration(r, outcome)
    ELSE SyncRetryIteration(r, outcome)

RetryAttempt(outcomes) ==
    /\ pc = "retry"
    /\ \E oi \in DOMAIN outcomes :
          /\ retry' = RetryIteration(retry, outcomes[oi])
          /\ pc' = IF retry'.status = "running" THEN "retry" ELSE "retry_done"
    /\ UNCHANGED <<restricted, embedding, sem, sqlr, chat, syn, cos, upload>>

(***************************************************************************)
(* Website upload (main.py upload_website and process_website_url, both    *)
(* on POST /api/upload/website; website_processor.py).  upload.files is    *)
(* the files table restricted to the records the upload creates, in id     *)
(* order, and upload.docs the website documents.  The File columns and     *)
(* the WebsiteDocument model the handlers use are taken as the handlers    *)
(* use them.                                                               *)
(***************************************************************************)
FileStatus_PROCESSING == "PROCESSING"
FileStatus_READY == "READY"
FileStatus_ERROR == "ERROR"

require_admin_or_manager(current_user) ==
    RoleOf(current_user) = UserRole_ADMIN \/ RoleOf(current_user) = UserRole_MANAGER

WebsiteFile(uploaded_by_id) ==
    [status |-> FileStatus_PROCESSING, uploaded_by_id |-> uploaded_by_id]

\* The handler up to the call of process_website: role check, URL
\* validation, then the File record in status PROCESSING (and, in
\* process_website_url, a WebsiteDocument and the immediate response: the
\* processing is a task of its own there).
UploadWebsite(handlers, users) ==
    /\ pc = "idle"
    /\ \E hi \in DOMAIN handlers, current_user \in users, url_valid \in BOOLEAN :
          LET handler == handlers[hi]
              u == [NoUpload EXCEPT !.handler = handler, !.current_user = current_user]
          IN IF ~require_admin_or_manager(current_user)
             THEN /\ upload' = [u EXCEPT !.step = "rejected", !.status_code = 403]
                  /\ pc' = "upload_done"
             ELSE IF ~url_valid
             THEN /\ upload' = [u EXCEPT !.step = "rejected", !.status_code = 400]
                  /\ pc' = "upload_done"
             ELSE /\ upload' =
                        [u EXCEPT !.step = "created",
                                  !.files = <<WebsiteFile(current_user)>>,
                                  !.file_id = 1,
                                  !.docs = IF handler = "process_website_url"
                                           THEN <<"processing">> ELSE <<>>,
                                  !.status_code = IF handler = "process_website_url"
                                                  THEN 200 ELSE 0]
                  /\ pc' = "upload"
    /\ UNCHANGED <<restricted, embedding, sem, sqlr, chat, syn, retry, cos>>

\* WebsiteProcessor.process_website(url, file_id, current_user_id) up to its
\* await: it adds a File record of its own and a WebsiteDocument for it; the
\* file_id it was given is not used.
ProcessWebsite ==
    /\ pc = "upload"
    /\ upload.step = "created"
    /\ upload' = [upload EXCEPT !.files = Append(@, WebsiteFile(upload.current_user)),
                                !.own_file_id = Len(upload.files) + 1,
                                !.docs = Append(@, "processing"),
                                !.website_id = Len(upload.docs) + 1,
                                !.step = "scrape"]
    /\ UNCHANGED <<restricted, embedding, pc, sem, sqlr, chat, syn, retry, cos>>

_update_error_status(u, website_id, file_id) ==
    IF website_id \in DOMAIN u.docs
    THEN [u EXCEPT !.docs[website_id] = "error",
                   !.files = IF file_id \in DOMAIN u.files
                             THEN [@ EXCEPT ![file_id].status = FileStatus_ERROR]
                             ELSE @]
    ELSE u

\* The end of the upload: the exception of _process_website_background
\* leaves process_website; upload_website answers 500, the task of
\* process_website_url dies with it.
UploadFinished(u, raised) ==
    [u EXCEPT !.step = "finished",
              !.raised = raised,
              !.status_code = IF u.handler = "upload_website"
                              THEN (IF raised THEN 500 ELSE 200)
                              ELSE @]

\* _process_website_background(url, website_doc.id, website_file.id), the
\* scraping: no content or a request error ends in _update_error_status.
ScrapeWebsite(scrapes, max_chunks) ==
    /\ pc = "upload"
    /\ upload.step = "scrape"
    /\ \E si \in DOMAIN scrapes, n \in 1..max_chunks :
          IF scrapes[si] = "ok"
          THEN /\ upload' = [upload EXCEPT !.scraped = "ok", !.chunks = n,
                                           !.step = "embedding"]
               /\ pc' = "upload"
          ELSE /\ upload' =
                     UploadFinished(
                         _update_error_status([upload EXCEPT !.scraped = scrapes[si]],
                                              upload.website_id, upload.own_file_id),
                         TRUE)
               /\ pc' = "upload_done"
    /\ UNCHANGED <<restricted, embedding, sem, sqlr, chat, syn, retry, cos>>

ChunkObjects(outcomes) == SelectSeq(outcomes, LAMBDA o : o = "ok")

\* One iteration of the chunk loop, and after the last one the status
\* update: READY for the processor's file when a chunk was embedded, the
\* error status when none was.
EmbedChunk(embeddings) ==
    /\ pc = "upload"
    /\ upload.step = "embedding"
    /\ \E ei \in DOMAIN embeddings :
          LET outcomes == Append(upload.outcomes, embeddings[ei])
              u == [upload EXCEPT !.outcomes = outcomes]
          IN IF Len(outcomes) < upload.chunks
             THEN /\ upload' = u
                  /\ pc' = "upload"
             ELSE /\ upload' =
                        IF ChunkObjects(outcomes) = <<>>
                        THEN UploadFinished(
                                 _update_error_status(u, u.website_id, u.own_file_id), TRUE)
                        ELSE UploadFinished(
                                 [u EXCEPT !.docs[u.website_id] = "processed",
                                           !.files[u.own_file_id].status = FileStatus_READY],
                                 FALSE)
                  /\ pc' = "upload_done"
    /\ UNCHANGED <<restricted, embedding, sem, sqlr, chat, syn, retry, cos>>

\* A direct call of _cosine_similarity on two vectors of up to max_len
\* components.
CosineSimilarityCall(components, max_len) ==
    /\ pc = "idle"
    /\ \E la \in 0..max_len, lb \in 0..max_len :
          \E ia \in [1..la -> DOMAIN components], ib \in [1..lb -> DOMAIN components] :
             LET vec_a == [k \in 1..la |-> components[ia[k]]]
                 vec_b == [k \in 1..lb |-> components[ib[k]]]
             IN cos' = [vec_a |-> vec_a, vec_b |-> vec_b,
                        out |-> CosineSimilarity(vec_a, vec_b)]
    /\ pc' = "cosine"
    /\ UNCHANGED <<restricted, embedding, sem, sqlr, chat, syn, retry, upload>>

Respond ==
    /\ (pc = "semantic" \/ pc = "sql" \/ pc = "chat_done" \/ pc = "insights"
           \/ pc = "retry_done" \/ pc = "cosine"
           \/ pc = "upload_done")
    /\ pc' = "idle"
    /\ sem' = NoSem
    /\ sqlr' = NoSql
    /\ chat' = NoChat
    /\ syn' = NoSyn
    /\ retry' = NoRetry
    /\ cos' = NoCos
    /\ upload' = NoUpload
    /\ UNCHANGED <<restricted, embedding>>

(***************************************************************************)
(* SpecSearch: search_semantic over a family of stores.                    *)
(***************************************************************************)
RestrictionSamples ==
    << NoRestrictions,
       [NoRestrictions EXCEPT ![1] = {2}, ![4] = {1, 3}] >>

MinScores == <<0, 50, 80>>

Limits == (0 - 1)..MaxLimit

InitSearch ==
    /\ \E i \in DOMAIN RestrictionSamples : restricted = RestrictionSamples[i]
    /\ \E s \in StoreShifts : embedding = StoreOfShift(s)
    /\ pc = "idle"
    /\ sem = NoSem
    /\ sqlr = NoSql
    /\ chat = NoChat
    /\ syn = NoSyn
    /\ retry = NoRetry
    /\ cos = NoCos
    /\ upload = NoUpload

SearchSemanticAny ==
    SearchSemanticCall(QueryEmbeddings, Limits, MinScores, FileTypeInputs,
                       AnyUser, Orders)

NextSearch == SearchSemanticAny \/ Respond

SpecSearch == InitSearch /\ [][NextSearch]_vars

(***************************************************************************)
(* SpecAccess: restriction lists change, every user searches.              *)
(***************************************************************************)
InitAccess ==
    /\ restricted = NoRestrictions
    /\ embedding = StoreOfShift(0)
    /\ pc = "idle"
    /\ sem = NoSem
    /\ sqlr = NoSql
    /\ chat = NoChat
    /\ syn = NoSyn
    /\ retry = NoRetry
    /\ cos = NoCos
    /\ upload = NoUpload

SearchSemanticAccess ==
    SearchSemanticCall(<<Returned(<<3, 4>>)>>, NumChunks..NumChunks, <<50>>,
                       <<None, "pdf", "csv", "xlsx", "website">>, AnyUser,
                       <<"asc">>)

SqlRagAccess ==
    SqlRagCall(Completed(<<"SELECT", " ", "x">>), 1..(Len(FileTypes) + 1), <<5>>,
               AnyUser, <<DbRows(1)>>, <<Returned(<<3, 4>>)>>)

NextAccess == SetFileRestrictions \/ SearchSemanticAccess \/ SqlRagAccess \/ Respond

SpecAccess == InitAccess /\ [][NextAccess]_vars

(***************************************************************************)
(* SpecGate: the SQL path on every completion text of up to MaxTextLen     *)
(* lexemes, on longer sample completions, and on a failing provider.       *)
(***************************************************************************)
MaxTextLen == 3

SampleCompletions ==
    << CompletionRaised,
       Completed(<<Backtick, Backtick, Backtick, "sql", "\n", "SELECT", " ", "x", ";",
                   "\n", Backtick, Backtick, Backtick>>),
       Completed(<<"SELECT", " ", "x", ";", " ", "DROP", " ", "x", ";">>),
       Completed(<<"select", " ", Backtick, "x", Backtick, " ", "LIMIT", " ", "x">>),
       Completed(<<"SELECT", " ", "x", "\n", Backtick, Backtick, Backtick>>),
       Completed(<<"x", " ", "SELECT", " ", "x", ";">>),
       Completed(<<"SELECT", " ", "unlimited", ";">>),
       Completed(<<"\n", "DROP", " ", "x", ";", "SELECT", " ", "x", ";">>) >>

SqlFiles == 2..3

SqlLimits == <<5, 10>>

DbOutcomes == <<DbError, DbRows(0), DbRows(2)>>

SqlEmbeddings == <<Returned(<<3, 4>>)>>

InitGate ==
    /\ restricted = NoRestrictions
    /\ embedding = StoreOfShift(0)
    /\ pc = "idle"
    /\ sem = NoSem
    /\ sqlr = NoSql
    /\ chat = NoChat
    /\ syn = NoSyn
    /\ retry = NoRetry
    /\ cos = NoCos
    /\ upload = NoUpload

SqlRagOnText ==
    \E n \in 0..MaxTextLen : \E idx \in [1..n -> DOMAIN Lexemes] :
        SqlRagCall(Completed([i \in 1..n |-> Lexemes[idx[i]]]), 2..2, SqlLimits,
                   2..2, <<DbRows(2)>>, SqlEmbeddings)

SqlRagOnSample ==
    \E i \in DOMAIN SampleCompletions :
        SqlRagCall(SampleCompletions[i], SqlFiles, SqlLimits, 2..2, DbOutcomes,
                   SqlEmbeddings)

NextGate == SqlRagOnText \/ SqlRagOnSample \/ Respond

SpecGate == InitGate /\ [][NextGate]_vars

(***************************************************************************)
(* SpecChat: chat turns, and direct calls of the hybrid SQL endpoint.      *)
(***************************************************************************)
InitChat ==
    /\ \E i \in DOMAIN RestrictionSamples : restricted = RestrictionSamples[i]
    /\ embedding = StoreOfShift(0)
    /\ pc = "idle"
    /\ sem = NoSem
    /\ sqlr = NoSql
    /\ chat = NoChat
    /\ syn = NoSyn
    /\ retry = NoRetry
    /\ cos = NoCos
    /\ upload = NoUpload

ChatDbOutcomes == <<DbError, DbRows(2)>>

ChatEmbeddings == <<Returned(<<3, 4>>), Raised>>

ChatCompletions == <<Completed(<<"SELECT", " ", "x">>)>>

ChatTurnStart == ChatStart(Users, <<MaxLimit>>, <<50>>)

ChatTurnFile ==
    ChatFile(Decisions, ChatCompletions, ChatDbOutcomes, ChatEmbeddings, <<"asc">>)

SqlRagChat ==
    SqlRagCall(ChatCompletions[1], SqlFiles, <<MaxLimit>>, Users,
               <<DbError, DbRows(0), DbRows(2)>>, ChatEmbeddings)

ChatTurnAggregate == ChatAggregate(Providers, <<"asc">>)

NextChat == ChatTurnStart \/ ChatTurnFile \/ ChatTurnAggregate \/ SqlRagChat \/ Respond

SpecChat == InitChat /\ [][NextChat]_vars

(***************************************************************************)
(* SpecRetry: calls of get_embedding_with_retry.  An attempt ends (the     *)
(* request has a 60 second timeout), so a started call goes on: SpecRetry- *)
(* Fair adds weak fairness of the loop's iteration.                        *)
(***************************************************************************)
MaxRetries == 3

InitialDelays == <<1, 20, 40>>

InitRetry ==
    /\ restricted = NoRestrictions
    /\ embedding = StoreOfShift(0)
    /\ pc = "idle"
    /\ sem = NoSem
    /\ sqlr = NoSql
    /\ chat = NoChat
    /\ syn = NoSyn
    /\ retry = NoRetry
    /\ cos = NoCos
    /\ upload = NoUpload

RetryCall ==
    GetEmbeddingWithRetry(<<"llm_utils", "embedding_utils">>, 0..MaxRetries, InitialDelays)

RetryStep == RetryAttempt(EmbeddingOutcomes)

NextRetry == RetryCall \/ RetryStep \/ Respond

SpecRetry == InitRetry /\ [][NextRetry]_vars

SpecRetryFair == SpecRetry /\ WF_vars(RetryStep)

(***************************************************************************)
(* SpecCosine: direct calls of _cosine_similarity.                         *)
(***************************************************************************)
MaxVecLen == 2

Components == <<0, 3, 4, 0 - 3>>

InitCosine ==
    /\ restricted = NoRestrictions
    /\ embedding = StoreOfShift(0)
    /\ pc = "idle"
    /\ sem = NoSem
    /\ sqlr = NoSql
    /\ chat = NoChat
    /\ syn = NoSyn
    /\ retry = NoRetry
    /\ cos = NoCos
    /\ upload = NoUpload

CosineCall == CosineSimilarityCall(Components, MaxVecLen)

NextCosine == CosineCall \/ Respond

SpecCosine == InitCosine /\ [][NextCosine]_vars

(***************************************************************************)
(* SpecUpload: website uploads.  The handler awaits the processing, or     *)
(* runs it as a task of the event loop: a started upload keeps running.    *)
(***************************************************************************)
MaxWebChunks == 3

UploadHandlers == <<"upload_website", "process_website_url">>

ScrapeOutcomes == <<"ok", "empty", "request_error">>

ChunkEmbeddings == <<"ok", "none", "raise">>

InitUpload ==
    /\ restricted = NoRestrictions
    /\ embedding = StoreOfShift(0)
    /\ pc = "idle"
    /\ sem = NoSem
    /\ sqlr = NoSql
    /\ chat = NoChat
    /\ syn = NoSyn
    /\ retry = NoRetry
    /\ cos = NoCos
    /\ upload = NoUpload

UploadCall == UploadWebsite(UploadHandlers, Users)

ScrapeStep == ScrapeWebsite(ScrapeOutcomes, MaxWebChunks)

EmbedStep == EmbedChunk(ChunkEmbeddings)

NextUpload == UploadCall \/ ProcessWebsite \/ ScrapeStep \/ EmbedStep \/ Respond

SpecUpload == InitUpload /\ [][NextUpload]_vars

SpecUploadFair ==
    SpecUpload /\ WF_vars(ProcessWebsite) /\ WF_vars(ScrapeStep) /\ WF_vars(EmbedStep)

(***************************************************************************)
(* SpecSynth: direct calls of generate_insights_from_chunks.  The sample   *)
(* chunks are two results as search_semantic builds them, a second result  *)
(* with the filename and source of the first, a chunk as the chat handler  *)
(* builds it (no filename), a chunk with a filename only, and two chunks   *)
(* whose filename or source contains " (".                                 *)
(***************************************************************************)
MaxSynthChunks == 2

SampleChunks ==
    << [ content |-> 1, score |-> 90, source |-> <<"Page 1">>, type |-> <<"PDF">>,
         filename |-> <<"a.pdf">> ],
       [ content |-> 2, score |-> 80, source |-> <<"Row 2">>, type |-> <<"CSV">>,
         filename |-> <<"b.csv">> ],
       [ content |-> 3, score |-> 70, source |-> <<"Page 1">>, type |-> <<"PDF">>,
         filename |-> <<"a.pdf">> ],
       [ content |-> 4, score |-> 100, source |-> <<"b.csv">>, type |-> <<"SQL">> ],
       [ content |-> 5, score |-> 60, filename |-> <<"a.pdf">> ],
       [ content |-> 6, score |-> 50, source |-> <<"c">>, type |-> <<"PDF">>,
         filename |-> <<"a", " (", "b">> ],
       [ content |-> 7, score |-> 40, source |-> <<"b", " (", "c">>, type |-> <<"PDF">>,
         filename |-> <<"a">> ] >>

InitSynth ==
    /\ restricted = NoRestrictions
    /\ embedding = StoreOfShift(0)
    /\ pc = "idle"
    /\ sem = NoSem
    /\ sqlr = NoSql
    /\ chat = NoChat
    /\ syn = NoSyn
    /\ retry = NoRetry
    /\ cos = NoCos
    /\ upload = NoUpload

InsightsCall == GenerateInsights(SampleChunks, MaxSynthChunks, Providers, Orders)

NextSynth == InsightsCall \/ Respond

SpecSynth == InitSynth /\ [][NextSynth]_vars

(***************************************************************************)
(* Helpers of the properties                                               *)
(***************************************************************************)
Range(s) == {s[i] : i \in 1..Len(s)}

ResultChunks(results) == {r.content : r \in Range(results)}

IsNonAdmin(u) == u # NoUser /\ RoleOf(u) # UserRole_ADMIN

ListAdmits(f, u) == restricted[f] = {} \/ u \in restricted[f]

Qualifies(c) ==
    /\ ModalitySearched(sem.file_type, ModalityOf(c))
    /\ ~sem.query_embedding.raised
    /\ sem.query_embedding.v # <<>>
    /\ ~ChunkSimilarity(sem.query_embedding.v, embedding[c]).skip
    /\ ChunkSimilarity(sem.query_embedding.v, embedding[c]).similarity >= sem.min_score

\* C1: for a non-admin user U, a chunk of file F can appear in the output of
\* search_semantic iff F's current restriction list is empty or contains U:
\* every scanned chunk and every result belongs to such a file, and every
\* chunk of such a file in a searched modality is scanned and, when it
\* qualifies and the limit does not cut it, returned.
C1_NonAdminSeesExactlyAdmittedFiles ==
    (pc = "semantic" /\ IsNonAdmin(sem.current_user)) =>
        /\ \A c \in sem.scanned : ListAdmits(FileOfChunk(c), sem.current_user)
        /\ \A r \in Range(sem.result) : ListAdmits(r.file, sem.current_user)
        /\ \A c \in Chunks :
              (ModalitySearched(sem.file_type, ModalityOf(c))
                 /\ ListAdmits(FileOfChunk(c), sem.current_user)
                 /\ ~sem.query_embedding.raised
                 /\ sem.query_embedding.v # <<>>)
              => /\ c \in sem.scanned
                 /\ (Qualifies(c) /\ sem.limit >= NumChunks)
                        => c \in ResultChunks(sem.result)

\* C1 witness: a non-admin search in which one file is on a list that
\* excludes the user, another is on a list that names the user, and a chunk
\* of the latter is returned.
C1_Witness ==
    /\ pc = "semantic"
    /\ IsNonAdmin(sem.current_user)
    /\ \E f \in Files : restricted[f] # {} /\ sem.current_user \notin restricted[f]
                         /\ ModalitySearched(sem.file_type, FileTypeOf(f))
    /\ \E r \in Range(sem.result) : sem.current_user \in restricted[r.file]

\* C2: a search by a user whose stored role is UserRole.ADMIN applies no
\* access filter: the chunks of every file in the searched modalities are
\* scanned, restricted or not.
C2_AdminScansEveryFile ==
    (pc = "semantic" /\ sem.current_user # NoUser
        /\ RoleOf(sem.current_user) = UserRole_ADMIN
        /\ ~sem.query_embedding.raised /\ sem.query_embedding.v # <<>>) =>
        sem.scanned = {c \in Chunks : ModalitySearched(sem.file_type, ModalityOf(c))}

\* C8 as stated: the returned list has at most limit elements, for any limit.
C8_AtMostLimitAnyLimit ==
    pc = "semantic" => Len(sem.result) <= sem.limit

\* C8 amended: for every limit >= 0 the returned list has at most limit
\* elements.
C8_AtMostLimitNonNegative ==
    (pc = "semantic" /\ sem.limit >= 0) => Len(sem.result) <= sem.limit

\* C8 witness: more chunks were kept than the limit allows and the output is
\* cut to the limit.
C8_Witness ==
    /\ pc = "semantic"
    /\ sem.limit >= 1
    /\ Len(sem.kept) > sem.limit
    /\ Len(sem.result) = sem.limit

\* C9: every result of search_semantic, of any modality, has
\* score >= min_score.
C9_ScoresAtLeastMinScore ==
    pc = "semantic" => \A r \in Range(sem.result) : r.score >= sem.min_score

\* C9 witness: a search with a positive threshold that returns results and
\* passes over a scored chunk below the threshold, with a website result.
C9_Witness ==
    /\ pc = "semantic"
    /\ sem.min_score > 0
    /\ \E r \in Range(sem.result) : r.type = "WEBSITE"
    /\ \E r \in Range(sem.result) : r.type = "PDF"
    /\ \E c \in sem.scanned :
          /\ ~ChunkSimilarity(sem.query_embedding.v, embedding[c]).skip
          /\ ChunkSimilarity(sem.query_embedding.v, embedding[c]).similarity < sem.min_score

\* C10: the output is ordered by score non-increasing across the modalities
\* merged together, and no kept chunk left out of the output has a strictly
\* higher score than a chunk in the output.
C10_SortedTopSelection ==
    pc = "semantic" =>
        /\ \A i, j \in 1..Len(sem.result) :
              i < j => sem.result[i].score >= sem.result[j].score
        /\ Range(sem.result) \subseteq Range(sem.kept)
        /\ \A k \in Range(sem.kept) \ Range(sem.result) :
              \A r \in Range(sem.result) : k.score <= r.score

\* C10 witness: results of two modalities with different scores, appended in
\* ascending score order, and a kept chunk cut by the limit.
C10_Witness ==
    /\ pc = "semantic"
    /\ Len(sem.result) >= 2
    /\ sem.result[1].type # sem.result[2].type
    /\ sem.result[1].score > sem.result[Len(sem.result)].score
    /\ \E i, j \in 1..Len(sem.kept) : i < j /\ sem.kept[i].score < sem.kept[j].score
    /\ Range(sem.kept) \ Range(sem.result) # {}

\* C3 as stated: search_sql_rag returns "Access denied" exactly when
\* can_access_file(file, user) is false, for every file and every user of
\* any role.
C3_SqlRagAgreesWithCanAccessFile ==
    (pc = "sql" /\ sqlr.file_id \in Files /\ sqlr.current_user # NoUser) =>
        ((sqlr.out.rag.error = "Access denied")
            <=> ~can_access_file(sqlr.file_id, sqlr.current_user, restricted))

\* C4: whatever the completion provider returns, and when it fails, the
\* text handed to the database begins with SELECT (case-insensitive).
C4_ExecutedBeginsWithSelect ==
    (pc = "sql" /\ sqlr.out.rag.db_called) =>
        StartsWithSelect(sqlr.out.rag.executed)

\* C4 witness: the provider returned a text that begins with DROP and a
\* statement was handed to the database.
C4_Witness ==
    /\ pc = "sql"
    /\ sqlr.out.rag.db_called
    /\ ~sqlr.completion.raised
    /\ sqlr.completion.content # <<>>
    /\ sqlr.completion.content[1] = "DROP"

\* The completion text with markdown fencing and backticks stripped.
WithoutFencesAndBackticks(t) ==
    Strip(SelectSeq(CleanedQuery(t), LAMBDA l : l # Backtick))

\* C5 as stated: a generated text that does not begin with SELECT after
\* markdown fencing and backticks are stripped is replaced by
\* SELECT * FROM <table> LIMIT <limit>, <limit> being the limit argument.
C5_ReplacedByDefaultWithCallerLimit ==
    (pc = "sql" /\ sqlr.out.rag.db_called /\ ~sqlr.completion.raised
        /\ ~StartsWithSelect(WithoutFencesAndBackticks(sqlr.completion.content))) =>
        sqlr.out.rag.executed =
            <<"SELECT", " ", "*", " ", "FROM", " ", sqlr.out.rag.table_name, " ",
              "LIMIT", " ", ToString(sqlr.limit)>>

\* C6: a chat turn with a user message always ends by aggregating, after
\* its loop has gone through every accessible file: a failure while one
\* file is handled (decision step or engine) skips that file only.
C6_FailureSkipsOnlyThatFile ==
    (pc = "chat_done" /\ chat.status # 400) =>
        /\ chat.aggregated
        /\ chat.i > Len(chat.files)

Precedence(sql_nonempty, semantic_nonempty) ==
    IF sql_nonempty /\ semantic_nonempty THEN "hybrid"
    ELSE IF sql_nonempty THEN "sql_primary"
    ELSE IF semantic_nonempty THEN "semantic_primary"
    ELSE "no_results"

\* C7: response_type is determined by which of the SQL results and the
\* semantic results are non-empty (both: hybrid, SQL only: sql_primary,
\* semantic only: semantic_primary, neither: no_results), in the aggregate
\* of a chat turn and in the result of hybrid_sql_semantic_search on a file.
C7_ResponseTypePrecedence ==
    /\ (pc = "chat_done" /\ chat.aggregated) =>
          chat.response_type = Precedence(chat.all_sql_results # <<>>,
                                          chat.all_semantic_results # <<>>)
    /\ (pc = "sql" /\ sqlr.out.rag.error = None) =>
          sqlr.out.response_type =
              Precedence(sqlr.out.rag.sql_results.row_count > 0,
                         sqlr.out.rag.semantic_results # <<>>)

C7_Witness ==
    /\ pc = "chat_done"
    /\ chat.aggregated
    /\ chat.all_sql_results # <<>>
    /\ chat.all_semantic_results # <<>>
    /\ chat.response_type = "hybrid"

\* C11: when embedding the query fails (the provider raises, or returns an
\* empty vector), search_semantic returns the empty list, whatever the store
\* and the other arguments are.
C11_EmbeddingFailureGivesEmptyList ==
    (pc = "semantic" /\ (sem.query_embedding.raised \/ sem.query_embedding.v = <<>>)) =>
        /\ sem.result = <<>>
        /\ sem.scanned = {}

\* C11 witness: the provider raised on a call that asks for results with
\* threshold 0 over a store holding a chunk with a usable embedding.
C11_Witness ==
    /\ pc = "semantic"
    /\ sem.query_embedding.raised
    /\ sem.limit >= 1
    /\ sem.min_score = 0
    /\ sem.file_type = None
    /\ \E c \in Chunks : embedding[c].kind = "list" /\ embedding[c].v # <<>>

\* The list of kept results of the call held in sem, computed on the store
\* from which the chunks of bad have been removed.
RECURSIVE KeptWithout(_, _)
KeptWithout(bad, i) ==
    IF i > Len(ModalityOrder) THEN <<>>
    ELSE LET m == ModalityOrder[i]
             rows == QueryAll(ChunksAfterAccessControl(m, sem.current_user, restricted),
                              sem.order)
             here == IF ModalitySearched(sem.file_type, m)
                     THEN ScoreChunks(SelectSeq(rows, LAMBDA c : c \notin bad),
                                      sem.query_embedding.v, sem.min_score, embedding)
                     ELSE <<>>
         IN here \o KeptWithout(bad, i + 1)

BadChunks == {c \in Chunks : ChunkSimilarity(sem.query_embedding.v, embedding[c]).skip}

\* C12: a chunk whose embedding is missing, does not parse or makes scoring
\* raise is skipped without aborting the batch: the call keeps and returns
\* exactly what it would with the bad chunks removed from the store.
C12_BadChunksSkippedOnly ==
    (pc = "semantic" /\ ~sem.query_embedding.raised /\ sem.query_embedding.v # <<>>) =>
        /\ sem.kept = KeptWithout(BadChunks, 1)
        /\ sem.result = SliceTo(SortByScoreDesc(KeptWithout(BadChunks, 1)), sem.limit)
        /\ \A c \in BadChunks : c \notin ResultChunks(sem.result)

\* C12 witness: within one modality a chunk whose embedding does not parse
\* is scanned before a chunk that is returned, and a chunk without
\* embedding is scanned as well.
C12_Witness ==
    /\ pc = "semantic"
    /\ sem.order = "asc"
    /\ \E b, c \in sem.scanned :
          /\ b < c
          /\ ModalityOf(b) = ModalityOf(c)
          /\ embedding[b].kind = "str_invalid"
          /\ c \in ResultChunks(sem.result)
    /\ \E b \in sem.scanned : embedding[b].kind = "null"

\* C13: when the execution of the statement fails, _execute_sql_query
\* returns data = [], row_count = 0 and the captured error, and
\* search_sql_rag returns its normal result (no error key) with
\* use_sql = false.
C13_ExecutionErrorIsCaptured ==
    (pc = "sql" /\ sqlr.out.rag.db_called /\ sqlr.db.error) =>
        /\ sqlr.out.rag.sql_results.error
        /\ sqlr.out.rag.sql_results.data = 0
        /\ sqlr.out.rag.sql_results.row_count = 0
        /\ sqlr.out.rag.error = None
        /\ ~sqlr.out.rag.use_sql
        /\ ~sqlr.out.rag.combined_approach
        /\ sqlr.out.rag.use_semantic = (sqlr.out.rag.semantic_results # <<>>)

\* C13 witness: the database rejected a statement that begins with SELECT,
\* and the call still returned semantic results.
C13_Witness ==
    /\ pc = "sql"
    /\ sqlr.out.rag.db_called
    /\ sqlr.db.error
    /\ StartsWithSelect(sqlr.out.rag.executed)
    /\ sqlr.out.rag.semantic_results # <<>>
    /\ sqlr.out.response_type = "semantic_primary"


\* C14: generate_insights_from_chunks never propagates an exception: for
\* every list of chunks, chunks without a filename or source included, and
\* every provider failure, it returns success = false with the error
\* message.
C14_SynthesisNeverPropagates ==
    pc = "insights" =>
        /\ ~syn.out.propagated
        /\ (syn.chunks # <<>> /\ (syn.provider.init # "ok" \/ syn.provider.raised)) =>
               /\ syn.out.success_present
               /\ ~syn.out.success
               /\ syn.out.error # <<>>


\* C19: called with an empty list of chunks, generate_insights_from_chunks
\* returns the fixed no-relevant-information response with no sources and
\* success = true, and sends nothing to the completion provider.
C19_EmptyInputFixedResponse ==
    (pc = "insights" /\ syn.chunks = <<>>) =>
        /\ syn.out.response = NoRelevantInformation
        /\ syn.out.sources = <<>>
        /\ syn.out.requests = 0
        /\ ~syn.out.propagated
        /\ syn.out.success_present
        /\ syn.out.success

\* C20: a synthesis over a non-empty list of chunks that returns an answer
\* has sent exactly one request to the completion provider between its
\* entry and its return.
C20_OneProviderRequest ==
    (pc = "insights" /\ syn.chunks # <<>> /\ syn.out.success) => syn.out.requests = 1


\* C15: a chat turn that went through all its files and accumulated some
\* SQL or semantic result ends with the payload that carries the response,
\* the sources and the response_type (status 200), never with the generic
\* error response.
C15_EvidenceTurnAnswers ==
    (pc = "chat_done" /\ chat.aggregated
        /\ (chat.all_sql_results # <<>> \/ chat.all_semantic_results # <<>>)) =>
        /\ chat.status = 200
        /\ chat.response # <<"An error occurred while processing your request.">>

\* C16: a chat turn that gathers no evidence (response_type no_results)
\* answers with an empty sources list.
C16_NoEvidenceNoSources ==
    (pc = "chat_done" /\ chat.aggregated /\ chat.response_type = "no_results") =>
        chat.sources = <<>>

\* C17: every semantic result accumulated in a chat turn that was built
\* from a chunk is tagged with the file that owns the chunk: the filename of
\* its file_info is the filename of that file.
C17_ResultsTaggedWithOwningFile ==
    \A k \in 1..Len(chat.all_semantic_results) :
        LET sem_result == chat.all_semantic_results[k]
        IN sem_result.r.type # "SQL_INSIGHTS" =>
               sem_result.file_info.filename = sem_result.r.filename


\* C18: search_semantic is deterministic on an unchanged store: a call
\* with the same query, limit, min_score, filter and user returns the same
\* ordered list whatever the order in which the store enumerates the chunks.
C18_SameResultInAnyStoreOrder ==
    pc = "semantic" =>
        \A oi \in DOMAIN Orders :
            SearchSemantic(sem.query_embedding, sem.limit, sem.min_score, sem.file_type,
                           sem.current_user, restricted, embedding, Orders[oi])
                = sem.result


\* A text has a SOURCES: section when one of its lexemes is the heading,
\* as the completion writes it or as the synthesis appends it.
HasSourcesSection(text) ==
    \E k \in 1..Len(text) :
       \/ text[k] = "SOURCES:"
       \/ text[k] = "Sources:"
       \/ text[k] = "sources:"
       \/ text[k] = "\n\nSOURCES:\n"

\* C21: whenever the synthesis of a non-empty list of chunks returns
\* success = true, the response text has a SOURCES: section, and a
\* completion text that has one already is returned unchanged.
C21_ResponseHasSourcesSection ==
    (pc = "insights" /\ syn.chunks # <<>> /\ syn.out.success) =>
        /\ HasSourcesSection(syn.out.response)
        /\ (syn.provider.generations /\ HasSourcesSection(syn.provider.text)) =>
               syn.out.response = syn.provider.text


\* The (filename, locator) pair of a chunk, and the positions at which a
\* pair occurs for the first time in a list of chunks.
PairOf(chunk) ==
    <<ChunkGet(chunk, "filename", <<"Unknown Document">>), ChunkGet(chunk, "source", <<"N/A">>)>>

FirstOccurrences(chunks) ==
    AscendingSeq({k \in 1..Len(chunks) :
                     \A j \in 1..(k - 1) : PairOf(chunks[j]) # PairOf(chunks[k])})

\* C22 as stated: the sources returned by a successful synthesis have one
\* entry per distinct (filename, locator) pair of the chunks, in the order
\* in which the pairs first occur, and no entry twice.
C22_OneSourcePerDistinctPair ==
    (pc = "insights" /\ syn.chunks # <<>> /\ syn.out.success) =>
        LET first == FirstOccurrences(syn.chunks)
        IN /\ Len(syn.out.sources) = Len(first)
           /\ \A n \in 1..Len(first) :
                 syn.out.sources[n] =
                     FormatSource([ source |-> PairOf(syn.chunks[first[n]])[2],
                                    type |-> ChunkGet(syn.chunks[first[n]], "type", <<"Unknown">>),
                                    filename |-> PairOf(syn.chunks[first[n]])[1] ])
           /\ \A m, n \in 1..Len(syn.out.sources) :
                 m # n => syn.out.sources[m] # syn.out.sources[n]

\* The positions at which a citation key "filename (locator)" occurs for
\* the first time in a list of chunks.
KeyOf(chunk) == SourceKeyText(PairOf(chunk)[1], PairOf(chunk)[2])

FirstKeyOccurrences(chunks) ==
    AscendingSeq({k \in 1..Len(chunks) :
                     \A j \in 1..(k - 1) : KeyOf(chunks[j]) # KeyOf(chunks[k])})

\* C22, amended: the sources returned by a successful synthesis have one
\* entry per distinct citation key "filename (locator)" of the chunks, each
\* built from the first chunk with that key, in the order in which the keys
\* first occur.
C22_OneSourcePerDistinctKey ==
    (pc = "insights" /\ syn.chunks # <<>> /\ syn.out.success) =>
        LET first == FirstKeyOccurrences(syn.chunks)
        IN /\ Len(syn.out.sources) = Len(first)
           /\ \A n \in 1..Len(first) :
                 syn.out.sources[n] =
                     FormatSource([ source |-> PairOf(syn.chunks[first[n]])[2],
                                    type |-> ChunkGet(syn.chunks[first[n]], "type", <<"Unknown">>),
                                    filename |-> PairOf(syn.chunks[first[n]])[1] ])

\* Two chunks with the same filename and locator give one source.
C22_Witness ==
    /\ pc = "insights"
    /\ syn.out.success
    /\ Len(syn.chunks) = 2
    /\ PairOf(syn.chunks[1]) = PairOf(syn.chunks[2])
    /\ syn.chunks[1] # syn.chunks[2]
    /\ Len(syn.out.sources) = 1


\* A statement has a LIMIT clause when one of its lexemes is the keyword.
HasLimitClause(t) == \E i \in 1..Len(t) : LowerLex(t[i]) = "limit"

\* C23: a statement without a LIMIT clause is executed with LIMIT <limit>,
\* the caller's limit, appended to it, and a statement that has a LIMIT
\* clause is executed as it is.
C23_LimitAppendedWhenAbsent ==
    (pc = "sql" /\ sqlr.out.rag.db_called) =>
        LET extracted_query ==
                ReplaceBackticks(ExtractFirstStatement(CleanedQuery(sqlr.out.rag.sql_query)))
        IN sqlr.out.rag.executed =
               IF HasLimitClause(extracted_query) THEN extracted_query
               ELSE extracted_query \o <<" ", "LIMIT", " ", ToString(sqlr.limit)>>

\* C28: the text sent to the database is a single statement: nothing but
\* whitespace follows its first ";".
C28_NothingAfterFirstSemicolon ==
    (pc = "sql" /\ sqlr.out.rag.db_called) =>
        \A i \in 1..Len(sqlr.out.rag.executed) :
            sqlr.out.rag.executed[i] = ";" =>
                \A j \in (i + 1)..Len(sqlr.out.rag.executed) :
                    IsSpace(sqlr.out.rag.executed[j])


\* C24: llm_utils.get_embedding_with_retry never raises: it returns an
\* embedding or None, and None when every attempt failed, whatever the
\* failures were.
C24_RetryNeverRaises ==
    (pc = "retry_done" /\ retry.module = "llm_utils") =>
        /\ retry.status # "raised"
        /\ (\A k \in 1..Len(retry.outcomes) : retry.outcomes[k] # "ok") =>
               retry.status = None

\* C25: get_embedding_with_retry calls get_embedding at most max_retries
\* times, makes no further call after a success, and every call of it
\* terminates.
C25_RetriesBoundedAndTerminate ==
    /\ [](/\ Len(retry.outcomes) <= retry.max_retries
          /\ \A k \in 1..(Len(retry.outcomes) - 1) : retry.outcomes[k] # "ok")
    /\ (pc = "retry" ~> pc = "retry_done")

\* A call that succeeds at its last attempt, after failures.
C25_Witness ==
    /\ pc = "retry_done"
    /\ retry.max_retries >= 2
    /\ Len(retry.outcomes) = retry.max_retries
    /\ retry.outcomes[retry.max_retries] = "ok"
    /\ retry.status = "embedding"

\* C26: in llm_utils.get_embedding_with_retry the waits are non-decreasing,
\* none exceeds 30 seconds, and none follows the last attempt.
C26_BackoffIncreasingAndCapped ==
    retry.module = "llm_utils" =>
        /\ \A k \in 1..Len(retry.sleeps) : retry.sleeps[k] <= 30
        /\ \A k \in 1..(Len(retry.sleeps) - 1) : retry.sleeps[k] <= retry.sleeps[k + 1]
        /\ Len(retry.sleeps) <= Max(retry.max_retries - 1, 0)
        /\ pc = "retry_done" => Len(retry.sleeps) < Max(Len(retry.outcomes), 1)


\* A vector has zero norm exactly when all its components are zero.
IsZeroVector(v) == \A k \in 1..Len(v) : v[k] = 0

\* C27: _cosine_similarity returns 0.0 whenever a vector is empty, the
\* vectors differ in length, or a vector has zero norm.
C27_DegenerateVectorsScoreZero ==
    (pc = "cosine"
        /\ (\/ cos.vec_a = <<>>
            \/ cos.vec_b = <<>>
            \/ Len(cos.vec_a) # Len(cos.vec_b)
            \/ IsZeroVector(cos.vec_a)
            \/ IsZeroVector(cos.vec_b))) =>
        cos.out = 0

\* Two non-empty vectors of the same length, the first of zero norm, scored 0.
C27_Witness ==
    /\ pc = "cosine"
    /\ cos.out = 0
    /\ Len(cos.vec_a) = 2
    /\ Len(cos.vec_b) = 2
    /\ IsZeroVector(cos.vec_a)
    /\ ~IsZeroVector(cos.vec_b)


\* The results a chat turn accumulated on the semantic path: a pdf or website
\* file always takes it (the agent decides only for csv/xlsx tables), and
\* search_semantic returns chunks, never SQL insights.
OnSemanticPath(sem_result) ==
    /\ \/ sem_result.file_info.file_type = "pdf"
       \/ sem_result.file_info.file_type = "website"
    /\ sem_result.r.type # "SQL_INSIGHTS"

\* C29: the semantic results aggregated in one chat turn contain each chunk
\* at most once: no two positions of all_semantic_results filled on the
\* semantic path hold the same chunk of the same document table.
C29_EachChunkAggregatedOnce ==
    \A j \in 1..Len(chat.all_semantic_results) :
        \A k \in 1..Len(chat.all_semantic_results) :
            (/\ j # k
             /\ OnSemanticPath(chat.all_semantic_results[j])
             /\ OnSemanticPath(chat.all_semantic_results[k])) =>
                ~(/\ chat.all_semantic_results[j].r.type = chat.all_semantic_results[k].r.type
                  /\ chat.all_semantic_results[j].r.chunk_id = chat.all_semantic_results[k].r.chunk_id)


\* Every File record the upload has created has left status PROCESSING.
AllFilesLeftProcessing ==
    \A f \in DOMAIN upload.files : upload.files[f].status # FileStatus_PROCESSING

\* C30: every File record created in status PROCESSING by a website upload
\* eventually leaves that status: the upload finishes, and then the status
\* of each record it created is READY or ERROR.
C30_UploadedFileLeavesProcessing ==
    (pc = "upload" /\ upload.step = "created") ~>
        (upload.step = "finished" /\ AllFilesLeftProcessing)

====
